---- MODULE Spec2Model ----
(***************************************************************************)
(* Model of src/dataset/SKU110K_fixed/evaluate_model.py: the detection     *)
(* evaluation script (label loading, IoU, greedy matching, per-image       *)
(* metrics, batch loop with per-image failure isolation, finalization).    *)
(*                                                                         *)
(* Numbers.  Box coordinates are integers.  compute_iou returns            *)
(* interArea / (union + 1e-6); that value is carried as the pair           *)
(* <<interArea, union>> and compared exactly (IouGT, IouAbove).  Precision *)
(* and recall are exact fractions <<num, den>> in lowest terms.            *)
(*                                                                         *)
(* Also modelled: compute_iou called on its own (SpecIou), and the region  *)
(* mapper of src/mapeador_regioes.py with the statistics of                *)
(* src/processar_mapeamento.py run on the file it saves (SpecMap).         *)
(***************************************************************************)
EXTENDS Integers, Sequences, FiniteSets, TLC

\* ------------------------------------------------------------- bounds ----
MaxImages == 3      \* longest image_paths list explored by Spec
MaxLiveImages == 1  \* longest image_paths list explored by FairSpec
MaxGT == 2          \* longest ground-truth list explored by SpecMatch
MaxPred == 2          \* longest prediction list explored by SpecMatch
MaxFileImages == 2   \* longest image_paths list explored by SpecFiles
MaxBatchImages == 11 \* longest image_paths list explored by SpecBatch
GridMax == 2         \* largest box coordinate explored by SpecIou
MaxConfirms == 3     \* most regions confirmed in a session of SpecMap
MaxId == 2           \* largest id_atual reached by the N key in SpecMap

\* ---------------------------------------------------- program constants --
batch_size == 5
iou_threshold == <<1, 2>>          \* 0.5 as the fraction 1/2

\* ------------------------------------------------------------ helpers ----
Max2(a, b) == IF a >= b THEN a ELSE b
Min2(a, b) == IF a <= b THEN a ELSE b

RECURSIVE Gcd(_, _)
Gcd(a, b) == IF b = 0 THEN a ELSE Gcd(b, a % b)

\* Python's a / b on non-negative integers, as a fraction in lowest terms.
Frac(n, d) == LET g == Gcd(n, d) IN <<n \div g, d \div g>>
Zero == <<0, 1>>

FracAdd(a, b) == Frac(a[1] * b[2] + b[1] * a[2], a[2] * b[2])

RECURSIVE FracSum(_)
FracSum(s) == IF s = <<>> THEN Zero ELSE FracAdd(s[1], FracSum(Tail(s)))

\* sum(xs) / len(xs), for a non-empty list
Mean(s) == LET t == FracSum(s) IN Frac(t[1], t[2] * Len(s))

\* compute_iou that divides by the area of boxA instead of the union.
compute_iouOverA(boxA, boxB) ==
    LET xA == Max2(boxA[1], boxB[1])
        yA == Max2(boxA[2], boxB[2])
        xB == Min2(boxA[3], boxB[3])
        yB == Min2(boxA[4], boxB[4])
        interArea == Max2(0, xB - xA) * Max2(0, yB - yA)
        boxAArea == (boxA[3] - boxA[1]) * (boxA[4] - boxA[2])
    IN  <<interArea, boxAArea>>

\* ------------------------------------------------------- compute_iou -----
\* The pair <<interArea, union>> stands for interArea / (union + 1e-6).
compute_iou(boxA, boxB) ==
    LET xA == Max2(boxA[1], boxB[1])
        yA == Max2(boxA[2], boxB[2])
        xB == Min2(boxA[3], boxB[3])
        yB == Min2(boxA[4], boxB[4])
        interArea == Max2(0, xB - xA) * Max2(0, yB - yA)
        boxAArea == (boxA[3] - boxA[1]) * (boxA[4] - boxA[2])
        boxBArea == (boxB[3] - boxB[1]) * (boxB[4] - boxB[2])
    IN  <<interArea, boxAArea + boxBArea - interArea>>

\* best_iou = 0
NoIou == <<0, 0>>

\* a > b for two IoU values: a1/(a2+e) > b1/(b2+e) with e = 1e-6 is
\* a1*b2 - b1*a2 + e*(a1 - b1) > 0; the first term is an integer and
\* |a1 - b1| < 10^6, so it decides unless it is 0.
IouGT(a, b) ==
    LET d == a[1] * b[2] - b[1] * a[2]
    IN  IF d # 0 THEN d > 0 ELSE a[1] > b[1]

\* a > t for an IoU value a and a fraction t = t1/t2 with t1 < 10^6:
\* a1*t2 > t1*(a2 + e), i.e. the integer a1*t2 - t1*a2 is at least 1.
IouAbove(a, t) == a[1] * t[2] > t[1] * a[2]

\* -------------------------------------------------------- the matcher ----
\* ScanPreds without the used_pred test of lines 143-144.
RECURSIVE ScanPredsReuse(_, _, _, _, _, _)
ScanPredsReuse(gt_box, preds, used, j, best_iou, best_pred) ==
    IF j > Len(preds) THEN <<best_iou, best_pred>>
    ELSE LET iou == compute_iou(gt_box, preds[j])
         IN  IF IouGT(iou, best_iou)
             THEN ScanPredsReuse(gt_box, preds, used, j + 1, iou, j - 1)
             ELSE ScanPredsReuse(gt_box, preds, used, j + 1, best_iou, best_pred)

\* ScanPreds with iou >= best_iou at line 146: the last of several equal
\* candidates wins.
RECURSIVE ScanPredsLastWins(_, _, _, _, _, _)
ScanPredsLastWins(gt_box, preds, used, j, best_iou, best_pred) ==
    IF j > Len(preds) THEN <<best_iou, best_pred>>
    ELSE IF (j - 1) \in used
         THEN ScanPredsLastWins(gt_box, preds, used, j + 1, best_iou, best_pred)
         ELSE LET iou == compute_iou(gt_box, preds[j])
              IN  IF ~IouGT(best_iou, iou)
                  THEN ScanPredsLastWins(gt_box, preds, used, j + 1, iou, j - 1)
                  ELSE ScanPredsLastWins(gt_box, preds, used, j + 1, best_iou, best_pred)

\* ScanPreds that stops at the first unused detection that overlaps at all,
\* instead of keeping the best one.
RECURSIVE ScanPredsFirst(_, _, _, _, _, _)
ScanPredsFirst(gt_box, preds, used, j, best_iou, best_pred) ==
    IF j > Len(preds) THEN <<best_iou, best_pred>>
    ELSE IF (j - 1) \in used
         THEN ScanPredsFirst(gt_box, preds, used, j + 1, best_iou, best_pred)
         ELSE LET iou == compute_iou(gt_box, preds[j])
              IN  IF IouGT(iou, best_iou)
                  THEN <<iou, j - 1>>
                  ELSE ScanPredsFirst(gt_box, preds, used, j + 1, best_iou, best_pred)

\* Inner loop (lines 142-148) from position j (1-based) on; detection
\* indices are 0-based as in the source, best_pred = -1 is "none".
RECURSIVE ScanPreds(_, _, _, _, _, _)
ScanPreds(gt_box, preds, used, j, best_iou, best_pred) ==
    IF j > Len(preds) THEN <<best_iou, best_pred>>
    ELSE IF (j - 1) \in used
         THEN ScanPreds(gt_box, preds, used, j + 1, best_iou, best_pred)
         ELSE LET iou == compute_iou(gt_box, preds[j])
              IN  IF IouGT(iou, best_iou)
                  THEN ScanPreds(gt_box, preds, used, j + 1, iou, j - 1)
                  ELSE ScanPreds(gt_box, preds, used, j + 1, best_iou, best_pred)

\* MatchOne without the threshold test of line 149: any overlapping
\* detection is matched.
MatchOneNoThreshold(gts, preds, i, ms, used) ==
    LET best == ScanPreds(gts[i], preds, used, 1, NoIou, -1)
    IN  IF best[2] # -1
        THEN <<Append(ms, <<i - 1, best[2]>>), used \cup {best[2]}>>
        ELSE <<ms, used>>

\* MatchOne with line 151 outside the if of line 149: the best detection is
\* marked used even when it is not matched.
MatchOneMarksAlways(gts, preds, i, ms, used) ==
    LET best == ScanPreds(gts[i], preds, used, 1, NoIou, -1)
    IN  IF IouAbove(best[1], iou_threshold)
        THEN <<Append(ms, <<i - 1, best[2]>>), used \cup {best[2]}>>
        ELSE <<ms, used \cup {best[2]}>>

\* One iteration of the outer loop (lines 139-151) for ground truth i
\* (1-based position, recorded 0-based): the new <<matches, used_pred>>.
MatchOne(gts, preds, i, ms, used) ==
    LET best == ScanPreds(gts[i], preds, used, 1, NoIou, -1)
    IN  IF IouAbove(best[1], iou_threshold)
        THEN <<Append(ms, <<i - 1, best[2]>>), used \cup {best[2]}>>
        ELSE <<ms, used>>

\* The whole outer loop from ground truth i on.
RECURSIVE MatchFrom(_, _, _, _, _)
MatchFrom(gts, preds, i, ms, used) ==
    IF i > Len(gts) THEN <<ms, used>>
    ELSE LET r == MatchOne(gts, preds, i, ms, used)
         IN  MatchFrom(gts, preds, i + 1, r[1], r[2])

\* image_metrics with the two subtractions of lines 155-156 exchanged.
image_metricsSwapped(n_gt, n_pred, n_match) ==
    LET t == n_match
        p == n_gt - t
        n == n_pred - t
    IN  <<t, p, n,
          IF t + p > 0 THEN Frac(t, t + p) ELSE Zero,
          IF t + n > 0 THEN Frac(t, t + n) ELSE Zero>>

\* lines 154-159: <<tp, fp, fn, precision, recall>> from the numbers of
\* ground truths, predictions and matches.
image_metrics(n_gt, n_pred, n_match) ==
    LET t == n_match
        p == n_pred - t
        n == n_gt - t
    IN  <<t, p, n,
          IF t + p > 0 THEN Frac(t, t + p) ELSE Zero,
          IF t + n > 0 THEN Frac(t, t + n) ELSE Zero>>

\* ------------------------------------------------------- label files -----
\* A label file is a sequence of lines, a line the sequence of its
\* whitespace-separated fields; a field is a natural number (tenths for the
\* four normalized values), or -1 standing for a token float() rejects.
IsNumber(f) == f # -1

\* cls, x, y, w, h = map(float, parts) raises ValueError when a sixth field
\* exists or one of the fields is not a number.
LineRaises(parts) ==
    /\ Len(parts) >= 5
    /\ \/ Len(parts) > 5
       \/ \E n \in 1..5 : ~IsNumber(parts[n])

LabelsRaise(file) == \E n \in 1..Len(file) : LineRaises(file[n])

KeepLine(parts) == Len(parts) >= 5

\* load_labels when no line raises: the lines of at least five fields.
load_labels(file) == SelectSeq(file, KeepLine)

\* RowToXyxy without the halving of w and h in lines 23-26.
RowToXyxyNoHalf(row, img_w, img_h) ==
    << ((row[2] - row[4]) * img_w) \div 10,
       ((row[3] - row[5]) * img_h) \div 10,
       ((row[2] + row[4]) * img_w) \div 10,
       ((row[3] + row[5]) * img_h) \div 10 >>

\* yolo_to_xyxy for one label row [cls, cx, cy, w, h]: with the fields in
\* tenths, (cx - w/2) * img_w is (2*cx - w) * img_w / 20.
RowToXyxy(row, img_w, img_h) ==
    << ((2 * row[2] - row[4]) * img_w) \div 20,
       ((2 * row[3] - row[5]) * img_h) \div 20,
       ((2 * row[2] + row[4]) * img_w) \div 20,
       ((2 * row[3] + row[5]) * img_h) \div 20 >>

yolo_to_xyxy(labels, img_w, img_h) ==
    [n \in 1..Len(labels) |-> RowToXyxy(labels[n], img_w, img_h)]

\* ---------------------------------------------------- the image files ----
\* An image of images/val with its label file, what cv2.imread gives and
\* what the model detects on it.
Image(has_label, label, readable, shape, dets) ==
    [has_label |-> has_label, label |-> label, readable |-> readable,
     shape |-> shape, dets |-> dets]

Row1 == <<0, 5, 5, 2, 2>>           \* box (40,40,60,60) on a 100x100 image
Row2 == <<0, 2, 2, 2, 2>>           \* box (10,10,30,30)
Shape100 == <<100, 100>>
BoxHit == <<40, 40, 60, 60>>
BoxFar == <<70, 70, 90, 90>>

ImgNoLabel    == Image(FALSE, <<>>, TRUE, Shape100, <<BoxHit>>)
ImgShortLabel == Image(TRUE, << <<0, 5, 5, 2>> >>, TRUE, Shape100, <<BoxHit>>)
ImgUnreadable == Image(TRUE, <<Row1>>, FALSE, Shape100, <<>>)
ImgNoDet      == Image(TRUE, <<Row1>>, TRUE, Shape100, <<>>)
ImgPerfect    == Image(TRUE, <<Row1>>, TRUE, Shape100, <<BoxHit>>)
ImgHalf       == Image(TRUE, <<Row1, Row2>>, TRUE, Shape100, <<BoxFar, BoxHit>>)

ImageFiles ==
    {ImgNoLabel, ImgShortLabel, ImgUnreadable, ImgNoDet, ImgPerfect, ImgHalf}

\* One box and one detection that does not overlap it.
ImgMiss       == Image(TRUE, <<Row1>>, TRUE, Shape100, <<BoxFar>>)
\* A good line followed by a line of six fields.
ImgLongLine   == Image(TRUE, <<Row1, <<0, 5, 5, 2, 2, 9>> >>, TRUE, Shape100,
                       <<BoxHit>>)
\* A good line followed by a line of five fields, one not a number.
ImgBadField   == Image(TRUE, <<Row1, <<0, 5, -1, 2, 2>> >>, TRUE, Shape100,
                       <<BoxHit>>)
\* A good line followed by a line of three fields, one not a number.
ImgShortBad   == Image(TRUE, <<Row1, <<0, -1, 5>> >>, TRUE, Shape100,
                       <<BoxHit>>)

\* No label file and a payload cv2.imread cannot decode.
ImgNoLabelUnreadable ==
    Image(FALSE, <<>>, FALSE, Shape100, <<>>)
\* A label file without a usable line and a payload that cannot be decoded.
ImgEmptyUnreadable ==
    Image(TRUE, << <<0, 5, 5, 2>> >>, FALSE, Shape100, <<>>)

LabelFiles ==
    ImageFiles \cup {ImgMiss, ImgLongLine, ImgBadField, ImgShortBad,
                     ImgNoLabelUnreadable, ImgEmptyUnreadable}

\* What lines 109, 114 and 120 print for an image that is skipped.
Message(o) ==
    CASE o = "SkippedNoLabel" -> "[AVISO] Sem label para"
      [] o = "SkippedEmptyLabel" -> "[AVISO] Label vazio em"
      [] o = "SkippedDecodeFailure" -> "[ERRO] Falha ao ler imagem:"

RECURSIVE SeqsUpTo(_, _)
SeqsUpTo(S, n) ==
    IF n = 0 THEN {<<>>}
    ELSE LET shorter == SeqsUpTo(S, n - 1)
         IN  shorter \cup {Append(s, x) : s \in shorter, x \in S}

\* ---------------------------------------------------------- the state ----
VARIABLES
    image_paths,        \* the sorted list of images (line 76)
    all_precisions, all_recalls, valid_images,      \* lines 84-87
    batch_idx, batch_paths, k,  \* outer loop variable, its slice, images taken
    gt_labels, img, gt_boxes, pred_boxes,           \* locals of one image
    matches, used_pred, gi,                         \* locals of the matcher
    tp, fp, fn, precision, recall,                  \* locals of the metrics
    pc,                 \* the statement about to run
    exc,                \* the exception being raised, or "none"
    report,             \* what the finally block printed
    outcome,            \* per image: Pending or its terminal outcome
    released,           \* no image has started since the last clear_memory
    finalized,          \* how many times the finally block has run
    cancelled,          \* a KeyboardInterrupt has been delivered
    batches,            \* the slices of line 99 so far, each with its batch_idx
    acc0,               \* the accumulator when the current image started
    boxA, boxB,         \* the arguments of a call of compute_iou
    iou, iou_rev,       \* what compute_iou(boxA, boxB) and
                        \* compute_iou(boxB, boxA) returned, <<>> before
    \* MapeadorRegioes (src/mapeador_regioes.py); None is <<>>
    regioes,            \* self.regioes: id -> the list of its items
    id_atual, item_atual,
    regiao_temp,        \* the region drawn and not yet confirmed, or None
    desenhando, ponto_inicial, ponto_final,     \* the drag in progress
    retorno,            \* what the last confirmar_regiao returned
    arquivo,            \* the last JSON file salvar_mapeamento wrote
    stats,              \* what estatisticas computed from arquivo
    map_pc,             \* "off", "loop" (executar) or "exited"
    clock               \* datetime.now(): confirmations so far

accVars == <<all_precisions, all_recalls, valid_images>>
loopVars == <<batch_idx, batch_paths, k>>
matchVars == <<gt_boxes, pred_boxes, matches, used_pred, gi>>
metricVars == <<tp, fp, fn, precision, recall>>
imgVars == <<gt_labels, img>>
ghostVars == <<outcome, released, finalized, cancelled, batches, acc0>>
evalVars == <<image_paths, accVars, loopVars, imgVars, matchVars, metricVars,
              pc, exc, report, ghostVars>>
iouVars == <<boxA, boxB, iou, iou_rev>>
mouseVars == <<desenhando, ponto_inicial, ponto_final>>
mapVars == <<regioes, id_atual, item_atual, regiao_temp, mouseVars, retorno,
             arquivo, stats, map_pc, clock>>
otherVars == <<iouVars, mapVars>>
vars == <<evalVars, otherVars>>

\* No call of compute_iou under observation.
IouOff == boxA = <<>> /\ boxB = <<>> /\ iou = <<>> /\ iou_rev = <<>>
\* No mapper session: the fields as __init__ leaves them (lines 35-45).
MapFields ==
    /\ regioes = <<>> /\ id_atual = 1 /\ item_atual = 1
    /\ regiao_temp = <<>>
    /\ desenhando = FALSE /\ ponto_inicial = <<>> /\ ponto_final = <<>>
    /\ retorno = "none" /\ arquivo = <<>> /\ stats = <<>> /\ clock = 0
MapOff == MapFields /\ map_pc = "off"
OtherOff == IouOff /\ MapOff

\* Statements inside the per-image try (lines 105-169).
TryPcs == {"label", "load", "read", "infer", "zero_p", "zero_r", "match",
           "metrics", "acc_p", "acc_r", "acc_v", "report", "release"}
\* Statements inside the outer try (lines 90-176).
LoopPcs == TryPcs \cup {"batch", "image", "batch_end"}

Skipped == {"SkippedNoLabel", "SkippedEmptyLabel", "SkippedDecodeFailure"}
Terminal == Skipped \cup {"Evaluated", "Failed"}

cur == batch_idx + k                \* 1-based position of image_path
image_path == image_paths[cur]

NoReport == [kind |-> "none"]

InitLocals ==
    /\ gt_labels = <<>> /\ img = <<0, 0>>
    /\ gt_boxes = <<>> /\ pred_boxes = <<>>
    /\ matches = <<>> /\ used_pred = {} /\ gi = 0
    /\ tp = 0 /\ fp = 0 /\ fn = 0 /\ precision = Zero /\ recall = Zero

\* The state at line 89 for an image list: empty accumulators (lines 84-87).
InitWith(paths) ==
    /\ image_paths = paths
    /\ all_precisions = <<>> /\ all_recalls = <<>> /\ valid_images = 0
    /\ batch_idx = 0 /\ batch_paths = <<>> /\ k = 0
    /\ InitLocals
    /\ pc = "batch" /\ exc = "none" /\ report = NoReport
    /\ outcome = [n \in 1..Len(paths) |-> "Pending"]
    /\ released = TRUE /\ finalized = 0 /\ cancelled = FALSE
    /\ batches = <<>>
    /\ OtherOff
    /\ acc0 = <<<<>>, <<>>, 0>>

\* Any non-empty image list (lines 76-79) within the bound.
Init == \E paths \in SeqsUpTo(ImageFiles, MaxImages) \ {<<>>} : InitWith(paths)

Running(p) == pc = p /\ exc = "none"

\* `continue` and the end of the try body: the image ends with outcome o.
EndImage(o) ==
    /\ outcome' = [outcome EXCEPT ![cur] = o]
    /\ pc' = "image"

\* BatchStart with the slice of line 99 one image short.
BatchStartShortSlice ==
    /\ Running("batch")
    /\ batch_idx < Len(image_paths)
    /\ released' = TRUE
    /\ batch_paths' = SubSeq(image_paths, batch_idx + 1,
                             Min2(batch_idx + batch_size - 1, Len(image_paths)))
    /\ batches' = Append(batches, <<batch_idx, batch_paths'>>)
    /\ k' = 0
    /\ pc' = "image"
    /\ UNCHANGED <<otherVars,
                   image_paths, accVars, batch_idx, imgVars, matchVars,
                   metricVars, exc, report, outcome, finalized, cancelled,
                   acc0>>

\* lines 94-101: the next batch starts; clear_memory, then the slice.
BatchStart ==
    /\ Running("batch")
    /\ batch_idx < Len(image_paths)
    /\ released' = TRUE
    /\ batch_paths' = SubSeq(image_paths, batch_idx + 1,
                             Min2(batch_idx + batch_size, Len(image_paths)))
    /\ batches' = Append(batches, <<batch_idx, batch_paths'>>)
    /\ k' = 0
    /\ pc' = "image"
    /\ UNCHANGED <<otherVars,
                   image_paths, accVars, batch_idx, imgVars, matchVars,
                   metricVars, exc, report, outcome, finalized, cancelled,
                   acc0>>

\* line 94: range() is exhausted, control falls to the finally block.
LoopExit ==
    /\ Running("batch")
    /\ batch_idx >= Len(image_paths)
    /\ pc' = "finally"
    /\ UNCHANGED <<otherVars,
                   image_paths, accVars, loopVars, imgVars, matchVars,
                   metricVars, exc, report, ghostVars>>

\* line 103: the next image of the batch.  The locals of the previous image
\* are dead here (each is assigned before its first use), so they are reset.
NextImage ==
    /\ Running("image")
    /\ k < Len(batch_paths)
    /\ k' = k + 1
    /\ pc' = "label"
    /\ gt_labels' = <<>> /\ img' = <<0, 0>>
    /\ gt_boxes' = <<>> /\ pred_boxes' = <<>>
    /\ matches' = <<>> /\ used_pred' = {}
    /\ tp' = 0 /\ fp' = 0 /\ fn' = 0 /\ precision' = Zero /\ recall' = Zero
    /\ released' = FALSE
    /\ acc0' = <<all_precisions, all_recalls, valid_images>>
    /\ UNCHANGED <<otherVars,
                   image_paths, accVars, batch_idx, batch_paths, gi, exc,
                   report, outcome, finalized, batches, cancelled>>

\* line 103: the batch has no more images.
BatchBodyEnd ==
    /\ Running("image")
    /\ k >= Len(batch_paths)
    /\ pc' = "batch_end"
    /\ UNCHANGED <<otherVars,
                   image_paths, accVars, loopVars, imgVars, matchVars,
                   metricVars, exc, report, ghostVars>>

\* line 176: clear_memory after the batch; range() advances.
BatchEnd ==
    /\ Running("batch_end")
    /\ released' = TRUE
    /\ batch_idx' = batch_idx + batch_size
    /\ k' = 0
    /\ pc' = "batch"
    /\ UNCHANGED <<otherVars,
                   image_paths, accVars, batch_paths, imgVars, matchVars,
                   metricVars, exc, report, outcome, finalized, batches,
                   cancelled, acc0>>

\* CheckLabel that records zeros for an image without label file, as lines
\* 131-134 do for an image without detections.
CheckLabelAppends ==
    /\ Running("label")
    /\ IF ~image_path.has_label
       THEN /\ EndImage("SkippedNoLabel")
            /\ all_precisions' = Append(all_precisions, Zero)
            /\ all_recalls' = Append(all_recalls, Zero)
       ELSE pc' = "load" /\ UNCHANGED <<outcome, all_precisions, all_recalls>>
    /\ UNCHANGED <<otherVars,
                   image_paths, valid_images, loopVars, imgVars, matchVars,
                   metricVars, exc, report, released, finalized, batches,
                   cancelled, acc0>>

\* CheckLabel that tries to decode the image before it looks for the label
\* file.
CheckLabelDecodeFirst ==
    /\ Running("label")
    /\ IF ~image_path.readable
       THEN EndImage("SkippedDecodeFailure")
       ELSE IF ~image_path.has_label
            THEN EndImage("SkippedNoLabel")
            ELSE pc' = "load" /\ UNCHANGED outcome
    /\ UNCHANGED <<otherVars,
                   image_paths, accVars, loopVars, imgVars, matchVars,
                   metricVars, exc, report, released, finalized, batches,
                   cancelled, acc0>>

\* lines 106-110
CheckLabel ==
    /\ Running("label")
    /\ IF ~image_path.has_label
       THEN EndImage("SkippedNoLabel")
       ELSE pc' = "load" /\ UNCHANGED outcome
    /\ UNCHANGED <<otherVars,
                   image_paths, accVars, loopVars, imgVars, matchVars,
                   metricVars, exc, report, released, finalized, batches,
                   cancelled, acc0>>

\* lines 112-115
LoadLabels ==
    /\ Running("load")
    /\ IF LabelsRaise(image_path.label)
       THEN exc' = "Exception" /\ UNCHANGED <<gt_labels, pc, outcome>>
       ELSE /\ gt_labels' = load_labels(image_path.label)
            /\ exc' = exc
            /\ IF Len(gt_labels') = 0
               THEN EndImage("SkippedEmptyLabel")
               ELSE pc' = "read" /\ UNCHANGED outcome
    /\ UNCHANGED <<otherVars, image_paths, accVars, loopVars, img, matchVars,
                   metricVars, report, released, finalized, batches,
                   cancelled, acc0>>

\* lines 118-121
ReadImage ==
    /\ Running("read")
    /\ IF ~image_path.readable
       THEN EndImage("SkippedDecodeFailure") /\ UNCHANGED img
       ELSE img' = image_path.shape /\ pc' = "infer" /\ UNCHANGED outcome
    /\ UNCHANGED <<otherVars,
                   image_paths, accVars, loopVars, gt_labels, matchVars,
                   metricVars, exc, report, released, finalized, batches,
                   cancelled, acc0>>

\* lines 123-130: img_h, img_w = img.shape[:2]; boxes; inference
Infer ==
    /\ Running("infer")
    /\ gt_boxes' = yolo_to_xyxy(gt_labels, img[2], img[1])
    /\ pred_boxes' = image_path.dets
    /\ pc' = IF Len(pred_boxes') = 0 THEN "zero_p" ELSE "match"
    /\ UNCHANGED <<otherVars, image_paths, accVars, loopVars, imgVars, matches,
                   used_pred, gi, metricVars, exc, report, ghostVars>>

\* lines 131-132
ZeroP ==
    /\ Running("zero_p")
    /\ all_precisions' = Append(all_precisions, Zero)
    /\ pc' = "zero_r"
    /\ UNCHANGED <<otherVars,
                   image_paths, all_recalls, valid_images, loopVars, imgVars,
                   matchVars, metricVars, exc, report, ghostVars>>

\* lines 133-134
ZeroR ==
    /\ Running("zero_r")
    /\ all_recalls' = Append(all_recalls, Zero)
    /\ EndImage("Evaluated")
    /\ UNCHANGED <<otherVars,
                   image_paths, all_precisions, valid_images, loopVars,
                   imgVars, matchVars, metricVars, exc, report, released,
                   finalized, batches, cancelled, acc0>>

\* lines 137-151
Match ==
    /\ Running("match")
    /\ LET r == MatchFrom(gt_boxes, pred_boxes, 1, <<>>, {})
       IN  matches' = r[1] /\ used_pred' = r[2]
    /\ pc' = "metrics"
    /\ UNCHANGED <<otherVars, image_paths, accVars, loopVars, imgVars, gt_boxes,
                   pred_boxes, gi, metricVars, exc, report, ghostVars>>

\* lines 154-159
Metrics ==
    /\ Running("metrics")
    /\ LET r == image_metrics(Len(gt_boxes), Len(pred_boxes), Len(matches))
       IN  /\ tp' = r[1] /\ fp' = r[2] /\ fn' = r[3]
           /\ precision' = r[4] /\ recall' = r[5]
    /\ pc' = "acc_p"
    /\ UNCHANGED <<otherVars,
                   image_paths, accVars, loopVars, imgVars, matchVars, exc,
                   report, ghostVars>>

\* AccP with the increment of line 163 moved up to line 161.
AccPCounts ==
    /\ Running("acc_p")
    /\ all_precisions' = Append(all_precisions, precision)
    /\ valid_images' = valid_images + 1
    /\ pc' = "acc_r"
    /\ UNCHANGED <<otherVars,
                   image_paths, all_recalls, loopVars, imgVars, matchVars,
                   metricVars, exc, report, ghostVars>>

\* line 161
AccP ==
    /\ Running("acc_p")
    /\ all_precisions' = Append(all_precisions, precision)
    /\ pc' = "acc_r"
    /\ UNCHANGED <<otherVars,
                   image_paths, all_recalls, valid_images, loopVars, imgVars,
                   matchVars, metricVars, exc, report, ghostVars>>

\* line 162
AccR ==
    /\ Running("acc_r")
    /\ all_recalls' = Append(all_recalls, recall)
    /\ pc' = "acc_v"
    /\ UNCHANGED <<otherVars,
                   image_paths, all_precisions, valid_images, loopVars,
                   imgVars, matchVars, metricVars, exc, report, ghostVars>>

\* line 163
AccV ==
    /\ Running("acc_v")
    /\ valid_images' = valid_images + 1
    /\ pc' = "report"
    /\ UNCHANGED <<otherVars,
                   image_paths, all_precisions, all_recalls, loopVars,
                   imgVars, matchVars, metricVars, exc, report, ghostVars>>

\* line 165
Report ==
    /\ Running("report")
    /\ pc' = "release"
    /\ UNCHANGED <<otherVars,
                   image_paths, accVars, loopVars, imgVars, matchVars,
                   metricVars, exc, report, ghostVars>>

\* lines 168-169: del img, results; clear_memory; the try body ends.
Release ==
    /\ Running("release")
    /\ released' = TRUE
    /\ EndImage("Evaluated")
    /\ UNCHANGED <<otherVars,
                   image_paths, accVars, loopVars, imgVars, matchVars,
                   metricVars, exc, report, finalized, batches, cancelled,
                   acc0>>

\* A statement of the per-image try raises an Exception.
Raise ==
    /\ pc \in TryPcs /\ exc = "none"
    /\ exc' = "Exception"
    /\ UNCHANGED <<otherVars,
                   image_paths, accVars, loopVars, imgVars, matchVars,
                   metricVars, pc, report, ghostVars>>

\* The user presses Ctrl-C while the outer try runs: KeyboardInterrupt.
Cancel ==
    /\ pc \in LoopPcs /\ exc # "KeyboardInterrupt"
    /\ exc' = "KeyboardInterrupt"
    /\ cancelled' = TRUE
    /\ UNCHANGED <<otherVars,
                   image_paths, accVars, loopVars, imgVars, matchVars,
                   metricVars, pc, report, outcome, released, finalized,
                   batches, acc0>>

\* InnerExcept without the handler: the exception leaves the batch loop.
InnerExceptAborts ==
    /\ pc \in TryPcs /\ exc = "Exception"
    /\ exc' = "none"
    /\ pc' = "finally"
    /\ UNCHANGED <<otherVars,
                   image_paths, accVars, loopVars, imgVars, matchVars,
                   metricVars, report, ghostVars>>

\* InnerExcept as a bare `except:`, which also takes KeyboardInterrupt.
InnerExceptBare ==
    /\ pc \in TryPcs /\ exc \in {"Exception", "KeyboardInterrupt"}
    /\ exc' = "none"
    /\ EndImage("Failed")
    /\ UNCHANGED <<otherVars,
                   image_paths, accVars, loopVars, imgVars, matchVars,
                   metricVars, report, released, finalized, batches,
                   cancelled, acc0>>

\* lines 171-173: except Exception ... continue
\* InnerExcept that goes back to the image that failed instead of on to
\* the next one.
InnerExceptRetry ==
    /\ pc \in TryPcs /\ exc = "Exception"
    /\ exc' = "none"
    /\ EndImage("Failed")
    /\ k' = k - 1
    /\ UNCHANGED <<otherVars,
                   image_paths, accVars, batch_idx, batch_paths, imgVars,
                   matchVars, metricVars, report, released, finalized,
                   batches, cancelled, acc0>>

InnerExcept ==
    /\ pc \in TryPcs /\ exc = "Exception"
    /\ exc' = "none"
    /\ EndImage("Failed")
    /\ UNCHANGED <<otherVars,
                   image_paths, accVars, loopVars, imgVars, matchVars,
                   metricVars, report, released, finalized, batches,
                   cancelled, acc0>>

\* OuterExcept with the report placed after the try statement instead of in
\* a finally block: the handler ends the script.
OuterExceptNoFinally ==
    /\ pc \in LoopPcs /\ exc = "KeyboardInterrupt"
    /\ exc' = "none"
    /\ pc' = "done"
    /\ UNCHANGED <<otherVars,
                   image_paths, accVars, loopVars, imgVars, matchVars,
                   metricVars, report, ghostVars>>

\* lines 178-179: except KeyboardInterrupt, then on to the finally block.
OuterExcept ==
    /\ pc \in LoopPcs /\ exc = "KeyboardInterrupt"
    /\ exc' = "none"
    /\ pc' = "finally"
    /\ UNCHANGED <<otherVars,
                   image_paths, accVars, loopVars, imgVars, matchVars,
                   metricVars, report, ghostVars>>

\* lines 181-191
Finalize ==
    /\ Running("finally")
    /\ report' = IF valid_images > 0
                 THEN [kind |-> "means",
                       mean_precision |-> Mean(all_precisions),
                       mean_recall |-> Mean(all_recalls)]
                 ELSE [kind |-> "no_valid_images"]
    /\ finalized' = finalized + 1
    /\ pc' = "done"
    /\ UNCHANGED <<otherVars,
                   image_paths, accVars, loopVars, imgVars, matchVars,
                   metricVars, exc, outcome, released, cancelled, batches,
                   acc0>>

Next ==
    \/ BatchStart \/ LoopExit \/ NextImage \/ BatchBodyEnd \/ BatchEnd
    \/ CheckLabel \/ LoadLabels \/ ReadImage \/ Infer \/ ZeroP \/ ZeroR
    \/ Match \/ Metrics \/ AccP \/ AccR \/ AccV \/ Report \/ Release
    \/ Raise \/ Cancel \/ InnerExcept \/ OuterExcept \/ Finalize

Spec == Init /\ [][Next]_vars

\* The script on a directory where only the files themselves can make an
\* image fail: every step of Next but the failure of a call (Raise).
InitFiles ==
    \E paths \in SeqsUpTo(LabelFiles, MaxFileImages) \ {<<>>} : InitWith(paths)
NextFiles ==
    \/ BatchStart \/ LoopExit \/ NextImage \/ BatchBodyEnd \/ BatchEnd
    \/ CheckLabel \/ LoadLabels \/ ReadImage \/ Infer \/ ZeroP \/ ZeroR
    \/ Match \/ Metrics \/ AccP \/ AccR \/ AccV \/ Report \/ Release
    \/ Cancel \/ InnerExcept \/ OuterExcept \/ Finalize
SpecFiles == InitFiles /\ [][NextFiles]_vars

\* The script on directories of several batches, where nothing fails and
\* nobody interrupts: n images, by turns without label file, without
\* detection and detected perfectly.
BatchList(n) ==
    [i \in 1..n |-> <<ImgNoLabel, ImgNoDet, ImgPerfect>>[((i - 1) % 3) + 1]]
InitBatch == \E n \in 1..MaxBatchImages : InitWith(BatchList(n))
NextBatch ==
    \/ BatchStart \/ LoopExit \/ NextImage \/ BatchBodyEnd \/ BatchEnd
    \/ CheckLabel \/ LoadLabels \/ ReadImage \/ Infer \/ ZeroP \/ ZeroR
    \/ Match \/ Metrics \/ AccP \/ AccR \/ AccV \/ Report \/ Release
    \/ Finalize
SpecBatch == InitBatch /\ [][NextBatch]_vars

\* ------------------------------------------- compute_iou on its own ---
\* The script at rest: nothing of the evaluation loop is running.
EvalOff ==
    /\ image_paths = <<>>
    /\ all_precisions = <<>> /\ all_recalls = <<>> /\ valid_images = 0
    /\ batch_idx = 0 /\ batch_paths = <<>> /\ k = 0
    /\ InitLocals
    /\ pc = "off" /\ exc = "none" /\ report = NoReport
    /\ outcome = <<>>
    /\ released = TRUE /\ finalized = 0 /\ cancelled = FALSE
    /\ batches = <<>>
    /\ acc0 = <<<<>>, <<>>, 0>>

\* The boxes [x1, y1, x2, y2] with x1 <= x2 and y1 <= y2 on the grid.
GridBoxes ==
    {<<x1, y1, x2, y2>> : x1 \in 0..GridMax, y1 \in 0..GridMax,
                          x2 \in 0..GridMax, y2 \in 0..GridMax}
GridOrdered == {b \in GridBoxes : b[1] <= b[3] /\ b[2] <= b[4]}

InitIou ==
    /\ EvalOff
    /\ boxA \in GridOrdered /\ boxB \in GridOrdered
    /\ iou = <<>> /\ iou_rev = <<>>
    /\ MapOff

\* iou = compute_iou(boxA, boxB)
IouCall ==
    /\ iou = <<>>
    /\ iou' = compute_iou(boxA, boxB)
    /\ UNCHANGED <<evalVars, mapVars, boxA, boxB, iou_rev>>

\* the same call with the arguments exchanged
IouCallRev ==
    /\ iou_rev = <<>>
    /\ iou_rev' = compute_iou(boxB, boxA)
    /\ UNCHANGED <<evalVars, mapVars, boxA, boxB, iou>>

NextIou == IouCall \/ IouCallRev
SpecIou == InitIou /\ [][NextIou]_vars

\* ------------------------------------- the region mapper (mapeador) ---
\* src/mapeador_regioes.py.  A session is the loop of executar (lines
\* 389-440) with the mouse callback; self.regioes is a function from the
\* ids in use to the list of items of each; an item is a record with its
\* item_numero, coords and timestamp (the number of the confirmation).
\* The keys I, L, R and H change no field and are left out.

\* The places of the mouse events: a drag between the two spans more than
\* 5 pixels, a click and release at one of them spans 0.
MousePoints == {<<0, 0>>, <<10, 10>>}

\* lines 14-45 and 391-394: a session starts
InitMap == EvalOff /\ IouOff /\ MapFields /\ map_pc = "loop"

\* lines 84-89
LButtonDown ==
    /\ map_pc = "loop"
    /\ \E p \in MousePoints :
          /\ desenhando' = TRUE
          /\ ponto_inicial' = p
          /\ ponto_final' = p
    /\ UNCHANGED <<evalVars, iouVars, regioes, id_atual, item_atual,
                   regiao_temp, retorno, arquivo, stats, map_pc, clock>>

\* lines 91-95
MouseMove ==
    /\ map_pc = "loop"
    /\ desenhando
    /\ \E p \in MousePoints : ponto_final' = p
    /\ UNCHANGED <<evalVars, iouVars, regioes, id_atual, item_atual,
                   regiao_temp, desenhando, ponto_inicial, retorno, arquivo,
                   stats, map_pc, clock>>

\* lines 97-128
LButtonUp ==
    /\ map_pc = "loop"
    /\ \E p \in MousePoints :
          /\ desenhando' = FALSE
          /\ ponto_final' = p
          /\ IF ponto_inicial # <<>>
             THEN LET x_min == Min2(ponto_inicial[1], p[1])
                      y_min == Min2(ponto_inicial[2], p[2])
                      x_max == Max2(ponto_inicial[1], p[1])
                      y_max == Max2(ponto_inicial[2], p[2])
                  IN  IF (x_max - x_min) > 5 /\ (y_max - y_min) > 5
                      THEN regiao_temp' = <<x_min, y_min, x_max, y_max,
                                            x_max - x_min, y_max - y_min>>
                      ELSE regiao_temp' = <<>>
             ELSE UNCHANGED regiao_temp
    /\ UNCHANGED <<evalVars, iouVars, regioes, id_atual, item_atual,
                   ponto_inicial, retorno, arquivo, stats, map_pc, clock>>

\* lines 225-238: the item appended under id_atual, the id created if
\* it is not in use.
WithItem(rs, id, item) ==
    [i \in DOMAIN rs \cup {id} |->
        IF i = id
        THEN Append(IF id \in DOMAIN rs THEN rs[id] ELSE <<>>, item)
        ELSE rs[i]]

\* confirmar_regiao that keeps the region pending after confirming it.
confirmar_regiaoKeepsTemp ==
    /\ map_pc = "loop"
    /\ IF regiao_temp = <<>>
       THEN /\ retorno' = "False"
            /\ UNCHANGED <<regioes, item_atual, regiao_temp, clock>>
       ELSE /\ clock < MaxConfirms
            /\ regioes' = WithItem(regioes, id_atual,
                                   [item_numero |-> item_atual,
                                    coords |-> regiao_temp,
                                    timestamp |-> clock + 1])
            /\ item_atual' = item_atual + 1
            /\ clock' = clock + 1
            /\ retorno' = "True"
            /\ UNCHANGED regiao_temp
    /\ UNCHANGED <<evalVars, iouVars, id_atual, mouseVars, arquivo, stats,
                   map_pc>>

\* ENTER, lines 218-252
confirmar_regiao ==
    /\ map_pc = "loop"
    /\ IF regiao_temp = <<>>
       THEN /\ retorno' = "False"
            /\ UNCHANGED <<regioes, item_atual, regiao_temp, clock>>
       ELSE /\ clock < MaxConfirms
            /\ regioes' = WithItem(regioes, id_atual,
                                   [item_numero |-> item_atual,
                                    coords |-> regiao_temp,
                                    timestamp |-> clock + 1])
            /\ item_atual' = item_atual + 1
            /\ clock' = clock + 1
            /\ retorno' = "True"
            /\ regiao_temp' = <<>>
    /\ UNCHANGED <<evalVars, iouVars, id_atual, mouseVars, arquivo, stats,
                   map_pc>>

\* N, lines 254-260
novo_id ==
    /\ map_pc = "loop"
    /\ id_atual < MaxId
    /\ id_atual' = id_atual + 1
    /\ item_atual' = 1
    /\ UNCHANGED <<evalVars, iouVars, regioes, regiao_temp, mouseVars,
                   retorno, arquivo, stats, map_pc, clock>>

MaxOf(S) == CHOOSE m \in S : \A n \in S : n <= m
Without(rs, id) == [i \in DOMAIN rs \ {id} |-> rs[i]]
Popped(rs, id) == [rs EXCEPT ![id] = SubSeq(rs[id], 1, Len(rs[id]) - 1)]

PoppedFirst(rs, id) == [rs EXCEPT ![id] = Tail(rs[id])]

\* deletar_ultimo with pop(0): the oldest item of the last ID goes.
deletar_ultimoFirst ==
    /\ map_pc = "loop"
    /\ IF DOMAIN regioes = {}
       THEN UNCHANGED <<regioes, id_atual, item_atual>>
       ELSE LET ultimo_id == MaxOf(DOMAIN regioes)
            IN  IF regioes[ultimo_id] # <<>>
                THEN LET popped == PoppedFirst(regioes, ultimo_id)
                     IN
                         IF popped[ultimo_id] = <<>>
                         THEN /\ regioes' = Without(regioes, ultimo_id)
                              /\ IF DOMAIN regioes' # {}
                                 THEN /\ id_atual' = MaxOf(DOMAIN regioes')
                                      /\ item_atual' =
                                            Len(regioes'[id_atual']) + 1
                                 ELSE id_atual' = 1 /\ item_atual' = 1
                         ELSE /\ regioes' = popped
                              /\ item_atual' = Len(popped[ultimo_id]) + 1
                              /\ UNCHANGED id_atual
                ELSE UNCHANGED <<regioes, id_atual, item_atual>>
    /\ UNCHANGED <<evalVars, iouVars, regiao_temp, mouseVars, retorno,
                   arquivo, stats, map_pc, clock>>

\* deletar_ultimo without lines 283-293: an ID left without items stays.
deletar_ultimoKeepsId ==
    /\ map_pc = "loop"
    /\ IF DOMAIN regioes = {}
       THEN UNCHANGED <<regioes, id_atual, item_atual>>
       ELSE LET ultimo_id == MaxOf(DOMAIN regioes)
            IN  IF regioes[ultimo_id] # <<>>
                THEN LET popped == Popped(regioes, ultimo_id)
                     IN
                         /\ regioes' = popped
                         /\ item_atual' = Len(popped[ultimo_id]) + 1
                         /\ UNCHANGED id_atual
                ELSE UNCHANGED <<regioes, id_atual, item_atual>>
    /\ UNCHANGED <<evalVars, iouVars, regiao_temp, mouseVars, retorno,
                   arquivo, stats, map_pc, clock>>

\* D, lines 267-297
deletar_ultimo ==
    /\ map_pc = "loop"
    /\ IF DOMAIN regioes = {}
       THEN UNCHANGED <<regioes, id_atual, item_atual>>
       ELSE LET ultimo_id == MaxOf(DOMAIN regioes)
            IN  IF regioes[ultimo_id] # <<>>
                THEN LET popped == Popped(regioes, ultimo_id)
                     IN
                         IF popped[ultimo_id] = <<>>
                         THEN /\ regioes' = Without(regioes, ultimo_id)
                              /\ IF DOMAIN regioes' # {}
                                 THEN /\ id_atual' = MaxOf(DOMAIN regioes')
                                      /\ item_atual' =
                                            Len(regioes'[id_atual']) + 1
                                 ELSE id_atual' = 1 /\ item_atual' = 1
                         ELSE /\ regioes' = popped
                              /\ item_atual' = Len(popped[ultimo_id]) + 1
                              /\ UNCHANGED id_atual
                ELSE UNCHANGED <<regioes, id_atual, item_atual>>
    /\ UNCHANGED <<evalVars, iouVars, regiao_temp, mouseVars, retorno,
                   arquivo, stats, map_pc, clock>>

\* The ids in ascending order, as sorted(self.regioes.items()) gives them.
RECURSIVE SortedIds(_)
SortedIds(S) ==
    IF S = {} THEN <<>>
    ELSE LET m == MaxOf(S) IN Append(SortedIds(S \ {m}), m)

RECURSIVE SumLens(_, _)
SumLens(rs, S) ==
    IF S = {} THEN 0
    ELSE LET i == CHOOSE j \in S : TRUE
         IN  Len(rs[i]) + SumLens(rs, S \ {i})

\* lines 337-360: dados_salvar; the image is the 100x100 one.
dados_salvar(rs) ==
    [resolucao |-> [largura |-> Shape100[1], altura |-> Shape100[2]],
     total_ids |-> Cardinality(DOMAIN rs),
     total_items |-> SumLens(rs, DOMAIN rs),
     regioes |-> LET ids == SortedIds(DOMAIN rs)
                 IN  [n \in 1..Len(ids) |->
                        [id |-> ids[n], total_items |-> Len(rs[ids[n]]),
                         items |-> rs[ids[n]]]]]

\* salvar_mapeamento, lines 331-387: the file written, or none.
Saved(rs, old) == IF DOMAIN rs = {} THEN old ELSE dados_salvar(rs)

\* S
salvar_mapeamento ==
    /\ map_pc = "loop"
    /\ arquivo' = Saved(regioes, arquivo)
    /\ UNCHANGED <<evalVars, iouVars, regioes, id_atual, item_atual,
                   regiao_temp, mouseVars, retorno, stats, map_pc, clock>>

\* ESC or Q, lines 400-406: the answer S saves before the loop ends.
Sair ==
    /\ map_pc = "loop"
    /\ \E resposta \in {"S", "N"} :
          arquivo' = IF resposta = "S" THEN Saved(regioes, arquivo)
                                      ELSE arquivo
    /\ map_pc' = "exited"
    /\ UNCHANGED <<evalVars, iouVars, regioes, id_atual, item_atual,
                   regiao_temp, mouseVars, retorno, stats, clock>>

\* The areas of all items of a file, region by region (lines 145-149).
RECURSIVE todas_areas(_, _)
todas_areas(rgs, n) ==
    IF n = 0 THEN <<>>
    ELSE todas_areas(rgs, n - 1) \o
         [j \in 1..Len(rgs[n].items) |->
            rgs[n].items[j].coords[5] * rgs[n].items[j].coords[6]]

\* ProcessadorMapeamento.estatisticas (src/processar_mapeamento.py lines
\* 104-161) on the data of a file: the divisors it divides by, in the order
\* of the divisions, and whether min() gets an empty list (line 152).
estatisticas(dados) ==
    LET areas == todas_areas(dados.regioes, Len(dados.regioes))
        divisors ==
            <<dados.total_ids>> \o
            [n \in 1..Len(dados.regioes) |-> dados.regioes[n].total_items] \o
            <<Len(areas), dados.resolucao.largura * dados.resolucao.altura>>
    IN  [divisors |-> divisors,
         erro |-> IF \E n \in 1..Len(divisors) : divisors[n] = 0
                  THEN "ZeroDivisionError"
                  ELSE IF areas = <<>> THEN "ValueError" ELSE "none"]

\* The processor run on the last file the mapper wrote.
Estatisticas ==
    /\ arquivo # <<>>
    /\ stats' = estatisticas(arquivo)
    /\ UNCHANGED <<evalVars, iouVars, regioes, id_atual, item_atual,
                   regiao_temp, mouseVars, retorno, arquivo, map_pc, clock>>

NextMap ==
    \/ LButtonDown \/ MouseMove \/ LButtonUp
    \/ confirmar_regiao \/ novo_id \/ deletar_ultimo
    \/ salvar_mapeamento \/ Sair \/ Estatisticas
SpecMap == InitMap /\ [][NextMap]_vars

\* The script is one sequential thread: it always takes its next step.
InitLive == \E paths \in SeqsUpTo(ImageFiles, MaxLiveImages) \ {<<>>} : InitWith(paths)
FairSpec == InitLive /\ [][Next]_vars /\ WF_vars(Next)

\* ------------------------------------------- the matcher, step by step ---
\* SpecMatch runs lines 137-159 on every pair of box lists within the
\* bounds, one ground truth per step.
\* The boxes: five intervals of 0..3 at height 1, whose IoUs are 0, 1/3,
\* 1/2 and 2/3 (with ties), and one box of height 2.
MatchBoxes ==
    {<<0, 0, 1, 1>>, <<0, 0, 2, 1>>, <<0, 0, 3, 1>>, <<1, 0, 3, 1>>,
     <<2, 0, 3, 1>>, <<0, 0, 2, 2>>}

\* The state at line 137: at least one ground truth (line 113) and at
\* least one prediction (line 130).
InitMatch ==
    /\ image_paths = <<>>
    /\ all_precisions = <<>> /\ all_recalls = <<>> /\ valid_images = 0
    /\ batch_idx = 0 /\ batch_paths = <<>> /\ k = 0
    /\ gt_labels = <<>> /\ img = <<0, 0>>
    /\ gt_boxes \in SeqsUpTo(MatchBoxes, MaxGT) \ {<<>>}
    /\ pred_boxes \in SeqsUpTo(MatchBoxes, MaxPred) \ {<<>>}
    /\ matches = <<>> /\ used_pred = {} /\ gi = 0
    /\ tp = 0 /\ fp = 0 /\ fn = 0 /\ precision = Zero /\ recall = Zero
    /\ pc = "match" /\ exc = "none" /\ report = NoReport
    /\ outcome = <<>>
    /\ released = TRUE /\ finalized = 0 /\ cancelled = FALSE
    /\ batches = <<>>
    /\ OtherOff
    /\ acc0 = <<<<>>, <<>>, 0>>

\* lines 137-138
MatchBegin ==
    /\ Running("match")
    /\ matches' = <<>> /\ used_pred' = {} /\ gi' = 0
    /\ pc' = "gt_loop"
    /\ UNCHANGED <<otherVars, image_paths, accVars, loopVars, imgVars, gt_boxes,
                   pred_boxes, metricVars, exc, report, ghostVars>>

\* lines 139-151, one ground truth
MatchIter ==
    /\ Running("gt_loop")
    /\ gi < Len(gt_boxes)
    /\ LET r == MatchOne(gt_boxes, pred_boxes, gi + 1, matches, used_pred)
       IN  matches' = r[1] /\ used_pred' = r[2]
    /\ gi' = gi + 1
    /\ UNCHANGED <<otherVars, image_paths, accVars, loopVars, imgVars, gt_boxes,
                   pred_boxes, metricVars, pc, exc, report, ghostVars>>

\* line 139: enumerate() is exhausted
MatchEnd ==
    /\ Running("gt_loop")
    /\ gi >= Len(gt_boxes)
    /\ pc' = "metrics"
    /\ UNCHANGED <<otherVars,
                   image_paths, accVars, loopVars, imgVars, matchVars,
                   metricVars, exc, report, ghostVars>>

NextMatch == MatchBegin \/ MatchIter \/ MatchEnd \/ Metrics

SpecMatch == InitMatch /\ [][NextMatch]_vars

\* ============================================================ claims =====
\* C1: the match list is one-to-one: no detection index appears in two
\* matches and no annotation index appears in two matches.
C1_OneToOne ==
    \A m, n \in DOMAIN matches :
        m # n => matches[m][1] # matches[n][1] /\ matches[m][2] # matches[n][2]

\* Two ground truths were matched, and both would have picked the same
\* detection had it still been available.
C1_Witness ==
    /\ pc = "metrics" /\ Len(matches) = 2
    /\ gt_boxes[1] = gt_boxes[2]
    /\ Len(pred_boxes) = 2 /\ pred_boxes[1] = pred_boxes[2]

\* The greedy procedure, stated on its own: the ground truths in list
\* order; for each, among the detections no earlier ground truth took, the
\* ones of highest IoU, of those the lowest index; a match when that IoU
\* exceeds the threshold.
RECURSIVE RefMatch(_, _)
RefMatch(gts, preds) ==
    IF gts = <<>> THEN <<>>
    ELSE LET n == Len(gts)
             prev == RefMatch(SubSeq(gts, 1, n - 1), preds)
             taken == {prev[m][2] : m \in DOMAIN prev}
             avail == (0..(Len(preds) - 1)) \ taken
             score(j) == compute_iou(gts[n], preds[j + 1])
             tops == {j \in avail : \A j2 \in avail : ~IouGT(score(j2), score(j))}
         IN  IF avail = {} THEN prev
             ELSE LET best == CHOOSE j \in tops : \A j2 \in tops : j <= j2
                  IN  IF IouAbove(score(best), iou_threshold)
                      THEN Append(prev, <<n - 1, best>>)
                      ELSE prev

\* C10: after each ground truth the match list equals the reference greedy
\* procedure on the ground truths visited so far (list order, highest IoU
\* among the unused detections, lowest index on ties, no revisiting).
C10_GreedyReference ==
    pc \in {"gt_loop", "metrics", "acc_p"} =>
        matches = RefMatch(SubSeq(gt_boxes, 1, gi), pred_boxes)

\* Two different detections tie above the threshold for the first ground
\* truth; the first one got it and the second ground truth got the other.
C10_Witness ==
    /\ pc = "metrics" /\ Len(pred_boxes) = 2 /\ Len(gt_boxes) = 2
    /\ pred_boxes[1] # pred_boxes[2]
    /\ compute_iou(gt_boxes[1], pred_boxes[1]) = compute_iou(gt_boxes[1], pred_boxes[2])
    /\ matches = << <<0, 0>>, <<1, 1>> >>

\* ------------------------------------------------- claims on the runner --
Evaluated == {i \in DOMAIN outcome : outcome[i] = "Evaluated"}

\* What the per-image pipeline computes for an image file that gets
\* through it: <<precision, recall>>.
FileMetrics(f) ==
    IF f.dets = <<>> THEN <<Zero, Zero>>
    ELSE LET gts == yolo_to_xyxy(load_labels(f.label), f.shape[2], f.shape[1])
             ms == MatchFrom(gts, f.dets, 1, <<>>, {})[1]
             r == image_metrics(Len(gts), Len(f.dets), Len(ms))
         IN  <<r[4], r[5]>>

\* The precisions (which = 1) or recalls (which = 2) of the Evaluated
\* images among the first n, in list order.
RECURSIVE EvaluatedValues(_, _)
EvaluatedValues(n, which) ==
    IF n = 0 THEN <<>>
    ELSE IF outcome[n] = "Evaluated"
         THEN Append(EvaluatedValues(n - 1, which),
                     FileMetrics(image_paths[n])[which])
         ELSE EvaluatedValues(n - 1, which)

ReportOf(ps, rs, v) ==
    IF v > 0
    THEN [kind |-> "means", mean_precision |-> Mean(ps), mean_recall |-> Mean(rs)]
    ELSE [kind |-> "no_valid_images"]

\* C2: the finally block runs exactly once per run on every exit path, and
\* every run reaches it.
C2_FinalizeOnce ==
    /\ [](finalized <= 1)
    /\ [](pc = "done" => finalized = 1)
    /\ <>(pc = "done")

\* A run that was not cancelled and in which every image was skipped or
\* failed has finalized.
C2_Witness ==
    /\ pc = "done" /\ finalized = 1 /\ ~cancelled
    /\ \A i \in DOMAIN outcome : outcome[i] \in Skipped \cup {"Failed"}
    /\ \E i \in DOMAIN outcome : outcome[i] = "Failed"

\* C3: an Exception raised by any statement of one image's processing is
\* caught: the image becomes Failed and the loop goes on at its place; the
\* batch loop is left only after a cancellation or with the list exhausted.
C3_FailureIsolated ==
    /\ [][(exc = "Exception" /\ exc' # "KeyboardInterrupt") =>
            /\ exc' = "none"
            /\ outcome' = [outcome EXCEPT ![cur] = "Failed"]
            /\ pc' = "image"
            /\ loopVars' = loopVars]_vars
    /\ [](pc \in {"finally", "done"} =>
            cancelled \/ batch_idx >= Len(image_paths))

\* An image failed at its last statement and the next image has started.
C3_Witness ==
    /\ pc = "label" /\ cur = 2
    /\ outcome[1] = "Failed" /\ valid_images = 1

\* C4: a KeyboardInterrupt is not taken by the per-image handler, it leads
\* straight to the finally block; after it no image is started and the
\* accumulator no longer changes, and the report is computed from it.
C4_CancelStopsLoop ==
    /\ [][exc = "KeyboardInterrupt" =>
            pc' = "finally" /\ outcome' = outcome /\ accVars' = accVars]_vars
    /\ [][cancelled =>
            loopVars' = loopVars /\ outcome' = outcome /\ accVars' = accVars]_vars
    /\ []((pc = "done" /\ cancelled) =>
            report = ReportOf(all_precisions, all_recalls, valid_images))

\* A run cancelled with images left and metrics accumulated has reported
\* the means.
C4_Witness ==
    /\ pc = "done" /\ cancelled /\ report.kind = "means"
    /\ \E i \in DOMAIN outcome : outcome[i] = "Pending"

ZeroDetections == {i \in Evaluated : image_paths[i].dets = <<>>}

\* C5: an image with ground truth and zero detections counts as a valid
\* image and its zeros enter the reported means, also when every evaluated
\* image has zero detections.
C5_ZeroDetectionCounts ==
    (pc = "done" /\ ZeroDetections # {}) =>
        /\ valid_images >= Cardinality(ZeroDetections)
        /\ report.kind = "means"
        /\ report.mean_precision = Mean(all_precisions)
        /\ report.mean_recall = Mean(all_recalls)

\* C6: at the end valid_images is the number of Evaluated images; the
\* report gives the means over exactly those images if there are any, and
\* the notice otherwise.
C6_ValidCountAndMeans ==
    pc = "done" =>
        /\ valid_images = Cardinality(Evaluated)
        /\ report = ReportOf(EvaluatedValues(Len(image_paths), 1),
                             EvaluatedValues(Len(image_paths), 2),
                             Cardinality(Evaluated))

\* C7: clear_memory has run after every image, whatever its outcome, when
\* the next image is taken or the finally block is entered.
C7_ReleasedAfterEveryImage ==
    pc \in {"image", "batch_end", "finally", "done"} => released

\* C8: a Failed image leaves the accumulator as it was when the image
\* started, and a run that is not cancelled ends with exactly the values of
\* its Evaluated images.
C8_FailedContributesNothing ==
    /\ (cur \in DOMAIN outcome /\ outcome[cur] = "Failed") =>
            <<all_precisions, all_recalls, valid_images>> = acc0
    /\ (pc = "done" /\ ~cancelled) =>
            /\ all_precisions = EvaluatedValues(Len(image_paths), 1)
            /\ all_recalls = EvaluatedValues(Len(image_paths), 2)

\* C9: a skipped image leaves the precision list, the recall list and the
\* valid image count as they were when the image started.
C9_SkipLeavesAccumulator ==
    (cur \in DOMAIN outcome /\ outcome[cur] \in Skipped) =>
        <<all_precisions, all_recalls, valid_images>> = acc0

\* An image was skipped after another image had put values in the lists.
C9_Witness ==
    /\ cur \in DOMAIN outcome /\ outcome[cur] \in Skipped
    /\ all_precisions # <<>> /\ valid_images > 0

\* ------------------------------------------ more claims on the matcher ---
DetIndexes == 0..(Len(pred_boxes) - 1)
MatchOf(g) == {m \in DOMAIN matches : matches[m][1] = g}
\* The detections matched to ground truths before ground truth g (0-based).
TakenBefore(g) == {matches[m][2] : m \in {n \in DOMAIN matches : matches[n][1] < g}}
Iou(g, j) == compute_iou(gt_boxes[g + 1], pred_boxes[j + 1])
\* IoU > 0.5 for integer areas: inter / (union + 1e-6) > 1/2.
OverHalf(v) == 2 * v[1] > v[2]

\* C11: a ground truth already visited is matched if and only if one of the
\* detections still unused at its turn has IoU > 0.5 with it; every match
\* has a valid detection index and IoU > 0.5; the unmatched ground truths
\* are the false negatives.
C11_MatchIffAboveThreshold ==
    pc \in {"gt_loop", "metrics", "acc_p"} =>
        /\ \A g \in 0..(gi - 1) :
              (MatchOf(g) # {}) <=>
                  (\E j \in DetIndexes \ TakenBefore(g) : OverHalf(Iou(g, j)))
        /\ \A m \in DOMAIN matches :
              /\ matches[m][2] \in DetIndexes
              /\ OverHalf(Iou(matches[m][1], matches[m][2]))
        /\ pc = "acc_p" =>
              fn = Cardinality({g \in 0..(Len(gt_boxes) - 1) : MatchOf(g) = {}})

\* One ground truth whose best detection has IoU exactly 1/2 of the areas
\* stayed unmatched and is the one false negative; the other was matched.
C11_Witness ==
    /\ pc = "acc_p" /\ Len(gt_boxes) = 2 /\ Len(matches) = 1 /\ fn = 1
    /\ \E g \in {0, 1} :
          /\ MatchOf(g) = {}
          /\ \E j \in DetIndexes : 2 * Iou(g, j)[1] = Iou(g, j)[2] /\ Iou(g, j)[1] > 0

\* C12: when the matching of an image has ended no unmatched ground truth
\* and unused detection have IoU > 0.5: no match can be added.
C12_Maximal ==
    pc \in {"metrics", "acc_p"} =>
        \A g \in 0..(Len(gt_boxes) - 1), j \in DetIndexes :
            (MatchOf(g) = {} /\ j \notin {matches[m][2] : m \in DOMAIN matches})
                => ~OverHalf(Iou(g, j))

\* The matching ended with a ground truth unmatched and a detection unused
\* that overlap, next to a match.
C12_Witness ==
    /\ pc = "metrics" /\ Len(matches) = 1
    /\ \E g \in 0..(Len(gt_boxes) - 1), j \in DetIndexes :
          /\ MatchOf(g) = {} /\ j \notin {matches[m][2] : m \in DOMAIN matches}
          /\ Iou(g, j)[1] > 0

\* Scenario C: two ground truths at the same place and two detections that
\* both have IoU > 0.5 with them; the matching has ended.
ScenarioC ==
    /\ pc = "metrics"
    /\ Len(gt_boxes) = 2 /\ gt_boxes[1] = gt_boxes[2]
    /\ Len(pred_boxes) = 2
    /\ OverHalf(Iou(0, 0)) /\ OverHalf(Iou(0, 1))

\* C13 as stated: in either order of the detections the first ground truth
\* gets the first-scanned qualifying detection and the second the other.
C13_FirstScannedWins ==
    ScenarioC => matches = << <<0, 0>>, <<1, 1>> >>

\* C13 amended: the first ground truth gets the detection of higher IoU
\* (the first-scanned one when the two are equal), the second ground truth
\* the other; both matches register and no detection is assigned twice.
C13_HigherIouWins ==
    ScenarioC =>
        matches = IF IouGT(Iou(0, 1), Iou(0, 0))
                  THEN << <<0, 1>>, <<1, 0>> >>
                  ELSE << <<0, 0>>, <<1, 1>> >>

\* Scenario C with the better detection second in the list.
C13_Witness ==
    ScenarioC /\ IouGT(Iou(0, 1), Iou(0, 0)) /\ Len(matches) = 2

\* C14: after the metrics of an image that went through matching,
\* tp = M, fp = P - M >= 0, fn = G - M >= 0, precision = tp/(tp+fp) and
\* recall = tp/(tp+fn) (0 for a zero denominator), both within [0, 1].
C14_MetricsFormulas ==
    pc = "acc_p" =>
        /\ tp = Len(matches)
        /\ fp = Len(pred_boxes) - Len(matches) /\ fp >= 0
        /\ fn = Len(gt_boxes) - Len(matches) /\ fn >= 0
        /\ IF tp + fp > 0 THEN precision[1] * (tp + fp) = tp * precision[2]
                          ELSE precision[1] = 0
        /\ IF tp + fn > 0 THEN recall[1] * (tp + fn) = tp * recall[2]
                          ELSE recall[1] = 0
        /\ precision[2] > 0 /\ 0 <= precision[1] /\ precision[1] <= precision[2]
        /\ recall[2] > 0 /\ 0 <= recall[1] /\ recall[1] <= recall[2]

\* An image with one match, one spare detection and one missed ground
\* truth: precision 1/2, recall 1/2.
C14_Witness ==
    pc = "acc_p" /\ tp = 1 /\ fp = 1 /\ fn = 1
        /\ precision = <<1, 2>> /\ recall = <<1, 2>>

\* ---------------------------------------- claims on the files of a run ---
NoOverlap(a, b) ==
    b[1] >= a[3] \/ a[1] >= b[3] \/ b[2] >= a[4] \/ a[2] >= b[4]

\* C15: after the metrics of an image with one ground-truth box and one
\* detection: a detection equal to the box gives TP=1, FP=0, FN=0,
\* precision 1 and recall 1; a detection that does not overlap the box gives
\* TP=0, FP=1, FN=1, precision 0 and recall 0.  The label (0, .5, .5, .2, .2)
\* on a 100x100 image is the box (40,40,60,60).
C15_ScenariosAB ==
    (pc = "acc_p" /\ Len(gt_boxes) = 1 /\ Len(pred_boxes) = 1) =>
        /\ (gt_labels = <<Row1>> /\ img = Shape100) => gt_boxes = <<BoxHit>>
        /\ pred_boxes[1] = gt_boxes[1] =>
              /\ tp = 1 /\ fp = 0 /\ fn = 0
              /\ precision = <<1, 1>> /\ recall = <<1, 1>>
        /\ NoOverlap(gt_boxes[1], pred_boxes[1]) =>
              /\ tp = 0 /\ fp = 1 /\ fn = 1
              /\ precision[1] = 0 /\ recall[1] = 0

\* Scenario A was evaluated first and scenario B got its metrics.
C15_Witness ==
    /\ image_paths = <<ImgPerfect, ImgMiss>>
    /\ outcome[1] = "Evaluated" /\ all_precisions = << <<1, 1>> >>
    /\ pc = "acc_p" /\ cur = 2 /\ tp = 0 /\ fp = 1 /\ fn = 1

WellFormed(parts) == Len(parts) = 5 /\ \A n \in 1..5 : IsNumber(parts[n])

\* C18: no image fails because of a record of its label file: once the
\* labels of an image are loaded they are the well-formed records of the
\* file, whatever the other records are.
C18_MalformedDropped ==
    /\ \A n \in DOMAIN outcome : outcome[n] # "Failed"
    /\ pc \in {"read", "infer", "match", "metrics", "acc_p"} =>
          gt_labels = SelectSeq(image_path.label, WellFormed)

\* ------------------------------------------- more claims on the runner ---
\* C16: an image that has a terminal outcome keeps it; the image being
\* processed is Pending, the images before it are terminal and the ones
\* after it Pending; taking the next image moves on by one whatever the
\* outcome of the last one; a run that ends without being cancelled leaves
\* every image in a terminal outcome.
C16_EachImageOnce ==
    /\ [][\A n \in DOMAIN outcome :
            outcome[n] \in Terminal => outcome'[n] = outcome[n]]_vars
    /\ [](\A n \in DOMAIN outcome : outcome[n] \in Terminal \cup {"Pending"})
    /\ [](pc \in TryPcs =>
            \A n \in DOMAIN outcome :
                IF n < cur THEN outcome[n] \in Terminal
                           ELSE outcome[n] = "Pending")
    /\ [][(pc = "image" /\ pc' = "label") => cur' = cur + 1]_vars
    /\ []((pc = "done" /\ ~cancelled) =>
            \A n \in DOMAIN outcome : outcome[n] \in Terminal)

\* A run that was not cancelled ended with three images in three different
\* terminal outcomes, one of them Failed.
C16_Witness ==
    /\ pc = "done" /\ ~cancelled /\ Len(outcome) = 3
    /\ outcome[1] = "Failed" /\ outcome[2] \in Skipped
    /\ outcome[3] = "Evaluated"

\* C19: a KeyboardInterrupt is pending only where the loop is between two
\* images or two batches, or at the first statement of an image; never
\* further inside the processing of an image.
C19_CancelOnlyBetweenImages ==
    exc = "KeyboardInterrupt" => pc \in {"batch", "image", "batch_end", "label"}

\* C20: when the finally block runs with valid_images > 0 both lists have
\* an element, and the means it printed have a positive denominator.
C20_GuardedMeans ==
    /\ (pc = "finally" /\ valid_images > 0) =>
          Len(all_precisions) > 0 /\ Len(all_recalls) > 0
    /\ (pc = "done" /\ report.kind = "means") =>
          /\ Len(all_precisions) > 0 /\ Len(all_recalls) > 0
          /\ report.mean_precision[2] > 0 /\ report.mean_recall[2] > 0

\* The finally block is about to run after a cancellation that came between
\* lines 161 and 162 of the second image evaluated.
C20_Witness ==
    /\ pc = "finally" /\ cancelled /\ valid_images = 1
    /\ Len(all_precisions) = 2 /\ Len(all_recalls) = 1

\* ------------------------------------------------ claims on the batches ---
\* The number of images in the first b batches taken so far.
RECURSIVE ImagesIn(_)
ImagesIn(b) == IF b = 0 THEN 0 ELSE ImagesIn(b - 1) + Len(batches[b][2])

\* C17: each batch taken starts where the batches before it end and holds
\* the images of the list from there on, in order; it has batch_size images
\* unless it is the last one, which has between 1 and batch_size; when the
\* loop is over the batches hold all n images and their number is
\* ceil(n / batch_size).
C17_ContiguousBatches ==
    LET n == Len(image_paths)
        B == Len(batches)
    IN  /\ \A b \in 1..B :
              LET start == batches[b][1]
                  paths == batches[b][2]
              IN  /\ start = ImagesIn(b - 1)
                  /\ Len(paths) >= 1 /\ Len(paths) <= batch_size
                  /\ b < B => Len(paths) = batch_size
                  /\ \A j \in 1..Len(paths) : paths[j] = image_paths[start + j]
        /\ pc \in {"finally", "done"} =>
              /\ ImagesIn(B) = n
              /\ B * batch_size >= n /\ (B - 1) * batch_size < n

\* Eleven images went through in two full batches and a last batch of one.
C17_Witness ==
    /\ pc = "done" /\ Len(image_paths) = 11 /\ Len(batches) = 3
    /\ Len(batches[1][2]) = 5 /\ Len(batches[2][2]) = 5
    /\ Len(batches[3][2]) = 1 /\ batches[3][1] = 10

\* ------------------------------------------------ claims on compute_iou ---
\* The float compute_iou returns for the pair v is exactly the integer n:
\* v1 / (v2 + 1e-6) = n means v1 = n * v2 + n * 1e-6, and the areas on the
\* grid are integers far below 10^6, so n * 1e-6 must be 0.
IouIsInt(v, n) == n = 0 /\ v[1] = 0

\* C21: compute_iou of two boxes that do not overlap is exactly 0, and of
\* two identical boxes, of zero area or not, exactly 1.
C21_DisjointZeroIdenticalOne ==
    iou # <<>> =>
        /\ NoOverlap(boxA, boxB) => IouIsInt(iou, 0)
        /\ boxA = boxB => IouIsInt(iou, 1)

\* C22: compute_iou(boxA, boxB) and compute_iou(boxB, boxA) return the
\* same value.
C22_Symmetric ==
    (iou # <<>> /\ iou_rev # <<>>) => iou = iou_rev

\* Both calls returned for two different boxes of different areas that
\* overlap in part.
C22_Witness ==
    /\ iou # <<>> /\ iou_rev # <<>>
    /\ boxA = <<0, 0, 2, 1>> /\ boxB = <<1, 0, 2, 2>>
    /\ iou = <<1, 3>>

\* ------------------------------------------ the order of the checks ---
\* The skip the three checks of lines 108, 113 and 119 give a file, taken
\* in that order; "none" when the file passes all three.
SkipOf(f) ==
    IF ~f.has_label THEN "SkippedNoLabel"
    ELSE IF SelectSeq(f.label, WellFormed) = <<>> THEN "SkippedEmptyLabel"
    ELSE IF ~f.readable THEN "SkippedDecodeFailure"
    ELSE "none"

\* C23: the statements of an image run in the order label file, parsed
\* labels, decode; inference, matching and what follows are reached only
\* by an image that passes the three checks; an image that is skipped is
\* skipped at one of the checks, for the first check it does not pass (an
\* image without label file whose payload cannot be decoded is skipped
\* for its label), and the message of a decode failure is not the message
\* of a missing label.
C23_ChecksInOrder ==
    /\ [][pc' # pc =>
            /\ pc' = "load" => pc = "label"
            /\ pc' = "read" => pc = "load"
            /\ pc' = "infer" => pc = "read"]_vars
    /\ [](pc \in TryPcs \ {"label", "load", "read"} =>
            SkipOf(image_path) = "none")
    /\ [][\A n \in DOMAIN outcome :
            (outcome[n] = "Pending" /\ outcome'[n] \in Skipped) =>
                /\ pc \in {"label", "load", "read"}
                /\ outcome'[n] = SkipOf(image_paths[n])]_vars
    /\ [](\A n \in DOMAIN outcome :
            outcome[n] \in Skipped =>
                /\ outcome[n] = SkipOf(image_paths[n])
                /\ (outcome[n] = "SkippedDecodeFailure") =>
                      Message(outcome[n]) # Message("SkippedNoLabel"))

\* An image without label file and with an undecodable payload was skipped
\* for its label, and an image with labels and an undecodable payload for
\* its payload.
C23_Witness ==
    /\ image_paths = <<ImgNoLabelUnreadable, ImgUnreadable>>
    /\ outcome = <<"SkippedNoLabel", "SkippedDecodeFailure">>

\* C24: when the finally block runs after a cancellation, the precision
\* list and the recall list have the same length: each image that has a
\* value in one has a value in the other.
C24_ListsConsistentWhenCancelled ==
    (pc = "finally" /\ cancelled) => Len(all_precisions) = Len(all_recalls)

\* ---------------------------------------- claims on the region mapper ---
\* The items stored, of all ids; the timestamp tells them apart.
Items(rs) == UNION {{rs[i][n] : n \in 1..Len(rs[i])} : i \in DOMAIN rs}
Newest(rs) ==
    CHOOSE it \in Items(rs) : \A o \in Items(rs) : o.timestamp <= it.timestamp
ItemsOf(rs, id) == IF id \in DOMAIN rs THEN rs[id] ELSE <<>>

====
